---- MODULE Spec2Model ----
(***************************************************************************)
(* Speech_Summary: the transcribe -> summarize -> title pipeline and the   *)
(* fallback chain of each stage (src/transcription.py,                     *)
(* src/summarization.py, src/title_generation.py, src/main.py).            *)
(*                                                                         *)
(* A Python string is modelled as a sequence of atoms.  An atom is a run   *)
(* of characters the code never looks inside: one whitespace character,    *)
(* one punctuation mark or one word.  len() of a string is the sum of the  *)
(* lengths of its atoms.                                                   *)
(***************************************************************************)
EXTENDS Integers, Sequences, FiniteSets, TLC

VARIABLES
    \* generate_titles / extract_key_topics (src/title_generation.py)
    summary,      \* the summary handed to the function
    titleEnvKey,  \* os.getenv("OPENAI_API_KEY") is truthy
    titleRemote,  \* what the remote chat completion does when it is called
    titlePc,      \* "start", "done" or "raised"
    topics,       \* extract_key_topics' return value
    titles,       \* generate_titles' return value
    titlePath     \* the path that produced titles: "remote" or "rules"

VARIABLES
    \* transcribe_audio (src/transcription.py)
    trKeySet,     \* openai.api_key is truthy
    trRemote,     \* what the remote transcription does when it is called
    trLocal,      \* what the local Whisper model does when it is called
    transcript,   \* transcribe_audio's return value
    trPath,       \* the path that produced it: "remote" or "local"
    trPc          \* "start", "done" or "raised"

VARIABLES
    \* generate_summary (src/summarization.py)
    smTranscript,      \* the transcript handed to generate_summary
    smEnvKey,          \* os.getenv("OPENAI_API_KEY") is truthy
    smRemote,          \* what the remote chat completions do when they are called
    smHasTransformers, \* has_transformers
    smLocal,           \* what the local summarization pipeline does when it is used
    smChunks,          \* summarize_with_openai's chunks, as slices of the transcript
    smCalls,           \* the remote calls made, in order
    smSummary,         \* generate_summary's return value
    smPath,            \* the path that produced it: "remote", "transformers", "rules"
    smPc               \* "start", "done" or "raised"

smVars == <<smTranscript, smEnvKey, smRemote, smHasTransformers, smLocal, smChunks,
            smCalls, smSummary, smPath, smPc>>

VARIABLES
    \* chunk_text (src/summarization.py)
    ckText,       \* the text handed to chunk_text
    ckMax,        \* max_length
    ckChunks,     \* chunk_text's return value
    ckPc          \* "start" or "done"

ckVars == <<ckText, ckMax, ckChunks, ckPc>>

VARIABLES
    \* clean_transcript (src/summarization.py)
    clText,       \* the transcript handed to clean_transcript
    clOut,        \* what it returns
    clTwice,      \* what it returns for its own result
    clPc          \* "idle", "start", "cleaned", "done"

clVars == <<clText, clOut, clTwice, clPc>>

VARIABLES
    \* the server process and its requests (src/main.py)
    osEnvKey,        \* os.environ["OPENAI_API_KEY"]: "none" or a key
    openaiApiKey,    \* openai.api_key, set when transcription.py is imported
    hasTransformers, \* summarization.has_transformers
    running,         \* the request whose handler holds the event loop; 0 when none does
    reqs             \* per request: handler position, header, stage outputs, response

pipeVars == <<osEnvKey, openaiApiKey, hasTransformers, running, reqs>>

titleVars == <<summary, titleEnvKey, titleRemote, titlePc, topics, titles, titlePath>>

trVars == <<trKeySet, trRemote, trLocal, transcript, trPath, trPc>>

vars == <<titleVars, trVars, smVars, ckVars, clVars, pipeVars>>

----------------------------------------------------------------------------
(* Strings as sequences of atoms *)

\* Atoms written by name: a run of n letters, or one non-ASCII bullet glyph.
NamedAtomLen ==
    [a \in {"<letters:59>", "<letters:60>", "<letters:150>", "<letters:9989>",
            "<U+2022>", "<U+25CB>", "<U+25A1>"} |->
        CASE a = "<letters:59>" -> 59
          [] a = "<letters:60>" -> 60
          [] a = "<letters:150>" -> 150
          [] a = "<letters:9989>" -> 9989
          [] OTHER -> 1]

AtomLen(a) == IF a \in DOMAIN NamedAtomLen THEN NamedAtomLen[a] ELSE Len(a)

RECURSIVE StrLen(_)
StrLen(s) == IF s = <<>> THEN 0 ELSE AtomLen(Head(s)) + StrLen(Tail(s))

\* \s of Python's re and the characters str.strip() and str.split() remove
IsSpace(a) == a \in {" ", "\n", "\t"}

RECURSIVE LStrip(_)
LStrip(s) == IF s # <<>> /\ IsSpace(Head(s)) THEN LStrip(Tail(s)) ELSE s

RECURSIVE RStrip(_)
RStrip(s) ==
    IF s # <<>> /\ IsSpace(s[Len(s)]) THEN RStrip(SubSeq(s, 1, Len(s) - 1)) ELSE s

Strip(s) == LStrip(RStrip(s))

\* str.split(sep) for a one-character separator: always at least one piece
RECURSIVE SplitOn(_, _)
SplitOn(s, sep) ==
    IF \A i \in 1..Len(s) : s[i] # sep
    THEN <<s>>
    ELSE LET i == CHOOSE k \in 1..Len(s) :
                      s[k] = sep /\ \A j \in 1..(k - 1) : s[j] # sep
         IN  <<SubSeq(s, 1, i - 1)>> \o SplitOn(SubSeq(s, i + 1, Len(s)), sep)

\* str.split(): the maximal runs of non-whitespace atoms, in order
RECURSIVE SplitWords(_)
SplitWords(s) ==
    LET t == LStrip(s) IN
    IF t = <<>> THEN <<>>
    ELSE LET n == IF \E k \in 1..Len(t) : IsSpace(t[k])
                  THEN (CHOOSE k \in 1..Len(t) :
                            IsSpace(t[k]) /\ \A j \in 1..(k - 1) : ~IsSpace(t[j])) - 1
                  ELSE Len(t)
         IN  <<SubSeq(t, 1, n)>> \o SplitWords(SubSeq(t, n + 1, Len(t)))

\* sep.join(parts)
RECURSIVE Join(_, _)
Join(parts, sep) ==
    IF parts = <<>> THEN <<>>
    ELSE IF Len(parts) = 1 THEN parts[1]
    ELSE parts[1] \o sep \o Join(Tail(parts), sep)

RECURSIVE Concat(_)
Concat(parts) == IF parts = <<>> THEN <<>> ELSE Head(parts) \o Concat(Tail(parts))

\* seq[:n]
Take(seq, n) == SubSeq(seq, 1, IF n < Len(seq) THEN n ELSE Len(seq))

\* all sequences over S of length at most n
SeqsUpTo(S, n) == UNION {[1..k -> S] : k \in 0..n}

Range(f) == {f[i] : i \in DOMAIN f}

----------------------------------------------------------------------------
(* str.lower() and str.capitalize() on the word atoms the model uses *)

Lower(a) ==
    CASE a = "Budget" -> "budget"
      [] a = "Meeting" -> "meeting"
      [] a = "Summary" -> "summary"
      [] a = "Key" -> "key"
      [] a = "Points" -> "points"
      [] a = "Business" -> "business"
      [] a = "Discussion" -> "discussion"
      [] a = "Planning" -> "planning"
      [] a = "Review" -> "review"
      [] OTHER -> a

UpperFirst(a) ==
    CASE a = "budget" -> "Budget"
      [] a = "meeting" -> "Meeting"
      [] a = "summary" -> "Summary"
      [] a = "key" -> "Key"
      [] a = "points" -> "Points"
      [] a = "business" -> "Business"
      [] a = "discussion" -> "Discussion"
      [] a = "planning" -> "Planning"
      [] a = "review" -> "Review"
      [] a = "roadmap" -> "Roadmap"
      [] a = "hiring" -> "Hiring"
      [] a = "pricing" -> "Pricing"
      [] a = "launch" -> "Launch"
      [] a = "the" -> "The"
      [] a = "cat" -> "Cat"
      [] OTHER -> a

LowerStr(s) == [i \in 1..Len(s) |-> Lower(s[i])]

\* word.capitalize(): first character upper case, the rest lower case
Capitalize(w) ==
    IF w = <<>> THEN <<>>
    ELSE <<UpperFirst(Lower(w[1]))>> \o LowerStr(Tail(w))

----------------------------------------------------------------------------
(* src/title_generation.py *)

\* a raised exception, and a returned value
Raise == [raised |-> TRUE, value |-> <<>>]
Return(v) == [raised |-> FALSE, value |-> v]

stop_words ==
    {"the", "and", "a", "an", "in", "on", "at", "to", "for", "with",
     "by", "of", "is", "was", "were", "be", "as", "that", "this",
     "key", "point", "points", "meeting", "summary"}

\* sorted_words[:5]
TopN == 5

IsHash(a) == a \in {"#", "##", "###"}

\* re.sub(r'#+\s+', '', summary): a run of '#' and the whitespace after it
RECURSIVE StripHeadings(_)
StripHeadings(s) ==
    IF s = <<>> THEN <<>>
    ELSE IF IsHash(Head(s))
    THEN LET h == IF \E k \in 1..Len(s) : ~IsHash(s[k])
                  THEN (CHOOSE k \in 1..Len(s) :
                            ~IsHash(s[k]) /\ \A j \in 1..(k - 1) : IsHash(s[j])) - 1
                  ELSE Len(s)
             rest == SubSeq(s, h + 1, Len(s))
         IN  IF rest # <<>> /\ IsSpace(Head(rest))
             THEN StripHeadings(LStrip(rest))
             ELSE SubSeq(s, 1, h) \o StripHeadings(rest)
    ELSE <<Head(s)>> \o StripHeadings(Tail(s))

RECURSIVE DropNewlines(_)
DropNewlines(s) == IF s # <<>> /\ Head(s) = "\n" THEN DropNewlines(Tail(s)) ELSE s

\* re.sub(r'\n+', ' ', text)
RECURSIVE NewlinesToSpace(_)
NewlinesToSpace(s) ==
    IF s = <<>> THEN <<>>
    ELSE IF Head(s) = "\n" THEN <<" ">> \o NewlinesToSpace(DropNewlines(s))
    ELSE <<Head(s)>> \o NewlinesToSpace(Tail(s))

\* words = text.lower().split()
SummaryWords(s) == SplitWords(LowerStr(NewlinesToSpace(StripHeadings(s))))

IsStopWord(w) == Len(w) = 1 /\ w[1] \in stop_words

\* [word for word in words if word not in stop_words and len(word) > 3]
FilterWords(words) ==
    SelectSeq(words, LAMBDA w : ~IsStopWord(w) /\ StrLen(w) > 3)

\* word_counts[word]
CountOf(w, words) == Cardinality({i \in 1..Len(words) : words[i] = w})

\* the keys of word_counts, in insertion order
RECURSIVE DistinctInOrder(_)
DistinctInOrder(words) ==
    IF words = <<>> THEN <<>>
    ELSE LET init == DistinctInOrder(SubSeq(words, 1, Len(words) - 1))
             w == words[Len(words)]
         IN  IF w \in Range(init) THEN init ELSE Append(init, w)

\* SortedByCount without reverse=True: ascending counts
RECURSIVE SortedAscending(_, _)
SortedAscending(keys, words) ==
    IF keys = <<>> THEN <<>>
    ELSE LET best == CHOOSE i \in 1..Len(keys) :
                 /\ \A j \in 1..Len(keys) : CountOf(keys[i], words) <= CountOf(keys[j], words)
                 /\ \A j \in 1..(i - 1) : CountOf(keys[i], words) < CountOf(keys[j], words)
             rest == [k \in 1..(Len(keys) - 1) |-> IF k < best THEN keys[k] ELSE keys[k + 1]]
         IN  <<keys[best]>> \o SortedAscending(rest, words)

\* sorted(word_counts.items(), key=lambda x: x[1], reverse=True): a stable sort,
\* so items of equal count keep their insertion order
RECURSIVE SortedByCount(_, _)
SortedByCount(keys, words) ==
    IF keys = <<>> THEN <<>>
    ELSE LET best == CHOOSE i \in 1..Len(keys) :
                 /\ \A j \in 1..Len(keys) : CountOf(keys[j], words) <= CountOf(keys[i], words)
                 /\ \A j \in 1..(i - 1) : CountOf(keys[j], words) < CountOf(keys[i], words)
             rest == [k \in 1..(Len(keys) - 1) |-> IF k < best THEN keys[k] ELSE keys[k + 1]]
         IN  <<keys[best]>> \o SortedByCount(rest, words)

DefaultTopics == << <<"Business">>, <<"Meeting">>, <<"Discussion">> >>

extract_key_topics(s) ==
    LET filtered_words == FilterWords(SummaryWords(s))
        sorted_words == SortedByCount(DistinctInOrder(filtered_words), filtered_words)
        top == Take(sorted_words, TopN)
    IN  IF top = <<>> THEN DefaultTopics ELSE top

\* topics + ["Discussion", "Planning", "Review"]
GenericTopics == << <<"Discussion">>, <<"Planning">>, <<"Review">> >>

templates ==
    << <<"{topic1}", " ", "Discussion", " ", "Summary">>,
       <<"{topic1}", " ", "and", " ", "{topic2}", " ", "Planning">>,
       <<"Meeting", " ", "Notes", ":", " ", "{topic1}", " ", "Review">>,
       <<"{topic1}", " ", "Strategy", " ", "Session">>,
       <<"Quarterly", " ", "{topic1}", " ", "Update">>,
       <<"{topic1}", ":", " ", "Analysis", " ", "&", " ", "Next", " ", "Steps">>,
       <<"{topic1}", " ", "Implementation", " ", "Plan">>,
       <<"{topic1}", " ", "and", " ", "{topic2}", " ", "Collaboration">> >>

\* random.shuffle(templates); templates[:3]: any three distinct templates, in any order
Shuffles ==
    {p \in [1..3 -> 1..Len(templates)] : \A i, j \in 1..3 : i # j => p[i] # p[j]}

\* template.format(topic1=..., topic2=...); args is the list of keyword values given
Format(template, args) ==
    Concat([i \in 1..Len(template) |->
        CASE template[i] = "{topic1}" -> args[1]
          [] template[i] = "{topic2}" -> args[2]
          [] OTHER -> <<template[i]>>])

\* if len(topics) < 2: topics = topics + [...]
PadTopics(ts) == IF Len(ts) < 2 THEN ts \o GenericTopics ELSE ts

\* the body of the for loop: topics[0] and topics[1] raise IndexError when absent
RuleTitle(template, ts) ==
    IF "{topic1}" \in Range(template) /\ "{topic2}" \in Range(template)
    THEN IF Len(ts) < 2 THEN Raise
         ELSE Return(Format(template, <<Capitalize(ts[1]), Capitalize(ts[2])>>))
    ELSE IF Len(ts) < 1 THEN Raise
         ELSE Return(Format(template, <<Capitalize(ts[1])>>))

generate_titles_rule_based(s, shuffle) ==
    LET ts == PadTopics(extract_key_topics(s))
        each == [i \in 1..3 |-> RuleTitle(templates[shuffle[i]], ts)]
    IN  IF \E i \in 1..3 : each[i].raised THEN Raise
        ELSE Return([i \in 1..3 |-> each[i].value])

\* the character class of r'^[\d\.\-\*\•\○\□\s]+'
IsListMarkup(a) ==
    \/ a \in {"1", "2", "3", "2024", ".", "-", "*", "<U+2022>", "<U+25CB>", "<U+25A1>"}
    \/ IsSpace(a)

RECURSIVE StripListMarkup(_)
StripListMarkup(line) ==
    IF line # <<>> /\ IsListMarkup(Head(line)) THEN StripListMarkup(Tail(line)) ELSE line

\* clean_line = re.sub(...).strip()
CleanLine(line) == Strip(StripListMarkup(line))

\* the titles the for loop keeps, in response order
ParseTitles(content) ==
    LET lines == SplitOn(Strip(content), "\n")
        cleaned == [i \in 1..Len(lines) |-> CleanLine(lines[i])]
    IN  SelectSeq(cleaned, LAMBDA c : c # <<>> /\ StrLen(c) < 60)

\* str(len(titles) + 1)
NumStr(n) == CASE n = 1 -> "1" [] n = 2 -> "2" [] n = 3 -> "3"

\* PadTitles with `if` for `while`: one placeholder at most
PadTitlesOnce(ts) ==
    IF Len(ts) < 3
    THEN Append(ts, <<"Meeting", " ", "Summary", " ", NumStr(Len(ts) + 1)>>)
    ELSE ts

\* while len(titles) < 3: titles.append(f"Meeting Summary {len(titles) + 1}")
RECURSIVE PadTitles(_)
PadTitles(ts) ==
    IF Len(ts) < 3
    THEN PadTitles(Append(ts, <<"Meeting", " ", "Summary", " ", NumStr(Len(ts) + 1)>>))
    ELSE ts

\* resp is what openai.chat.completions.create does: it raises, or it returns a
\* completion whose message content is None or a text
generate_titles_with_openai(s, resp) ==
    IF resp.kind = "raise" THEN Raise
    ELSE IF resp.kind = "none" THEN Raise      \* None.strip(): AttributeError
    ELSE Return(Take(PadTitles(ParseTitles(resp.content)), 3))

generate_titles(s, keySet, resp, shuffle) ==
    LET viaRemote == generate_titles_with_openai(s, resp)
        viaRules == generate_titles_rule_based(s, shuffle)
    IN  IF keySet /\ ~viaRemote.raised
        THEN [raised |-> FALSE, value |-> viaRemote.value, path |-> "remote"]
        ELSE [raised |-> viaRules.raised, value |-> viaRules.value, path |-> "rules"]

----------------------------------------------------------------------------
(* Inputs of the title stage *)

MaxTopicWords == 3
MaxTitleWords == 2
MaxLines == 4

\* "## Meeting Summary\n\nBudget budget budget planning planning review"
ExampleSummary ==
    <<"##", " ", "Meeting", " ", "Summary", "\n", "\n", "Budget", " ", "budget", " ",
      "budget", " ", "planning", " ", "planning", " ", "review">>

\* four different countable words, so that more than TopN can occur
FourTopics == <<"roadmap", " ", "hiring", " ", "pricing", " ", "launch">>

\* a heading marker, a capitalised and a plain spelling of one word, another
\* countable word, a stop word and a word of three characters
SummaryVocab == {"##", "Budget", "budget", "planning", "the", "cat"}

SpaceJoined(toks) == Join([i \in 1..Len(toks) |-> <<toks[i]>>], <<" ">>)

WithTail(base, toks) ==
    IF toks = <<>> THEN base
    ELSE IF base = <<>> THEN SpaceJoined(toks)
    ELSE base \o <<" ">> \o SpaceJoined(toks)

TopicSummaries ==
    {WithTail(base, toks) : base \in {<<>>, FourTopics, ExampleSummary},
                            toks \in SeqsUpTo(SummaryVocab, MaxTopicWords)}

TitleSummaries == {SpaceJoined(toks) : toks \in SeqsUpTo({"##", "budget", "the"}, MaxTitleWords)}

\* lines of a completion: empty, numbered, bulleted with trailing blank,
\* markup only, and one of 60 characters
LineKinds ==
    { <<>>,
      <<"1", ".", " ", "Budget", " ", "Review">>,
      <<"-", " ", "<letters:59>", " ">>,
      <<"*", " ">>,
      <<"<letters:60>">> }

NoCall == [kind |-> "unused", content |-> <<>>]

TitleResponses ==
    {[kind |-> "raise", content |-> <<>>], [kind |-> "none", content |-> <<>>]}
    \cup {[kind |-> "ok", content |-> Join(ls, <<"\n">>)] : ls \in SeqsUpTo(LineKinds, MaxLines)}

----------------------------------------------------------------------------
(* src/transcription.py *)

\* a segment dict without the key
Missing == "<missing>"

\* f"Speaker {segment.get('speaker', 'Unknown')}"
SpeakerOf(segment) ==
    <<"Speaker", " ", IF segment.speaker = Missing THEN "Unknown" ELSE segment.speaker>>

\* FormatSegments without the speaker comparison: a header for every segment
RECURSIVE FormatEverySegment(_, _)
FormatEverySegment(segments, acc) ==
    IF segments = <<>> THEN acc.formatted
    ELSE FormatEverySegment(Tail(segments),
             [formatted |-> acc.formatted \o <<"\n">> \o SpeakerOf(Head(segments))
                                \o <<":", " ">> \o Head(segments).text,
              current_speaker |-> SpeakerOf(Head(segments))])

\* the for loop of transcribe_with_openai
\* acc = [formatted, current_speaker]; current_speaker None is <<>>
RECURSIVE FormatSegments(_, _)
FormatSegments(segments, acc) ==
    IF segments = <<>> THEN acc.formatted
    ELSE LET segment == Head(segments)
             speaker == SpeakerOf(segment)
         IN  IF speaker # acc.current_speaker
             THEN FormatSegments(Tail(segments),
                      [formatted |-> acc.formatted \o <<"\n">> \o speaker \o <<":", " ">> \o segment.text,
                       current_speaker |-> speaker])
             ELSE FormatSegments(Tail(segments),
                      [formatted |-> acc.formatted \o <<" ">> \o segment.text,
                       current_speaker |-> acc.current_speaker])

\* resp is what the transcription request gives: it raises, or it returns a
\* response with "segments", with only a text, or with neither
transcribe_with_openai(resp) ==
    IF resp.kind = "raise" THEN Raise
    ELSE IF resp.kind = "segments"
    THEN IF \E i \in 1..Len(resp.segments) : resp.segments[i].text = <<Missing>>
         THEN Raise                      \* segment['text']: KeyError
         ELSE Return(Strip(FormatSegments(resp.segments,
                               [formatted |-> <<>>, current_speaker |-> <<>>])))
    ELSE IF resp.kind = "text"
    THEN Return(<<"Speaker", ":", " ">> \o resp.text)
    ELSE Return(<<"Unable", " ", "to", " ", "transcribe", " ", "audio", " ", "with", " ",
                  "OpenAI", " ", "API">>)

\* len(current_text_chunk) > 200
WhisperBlockLen == 200

\* the for loop of transcribe_with_whisper and the flush after it
\* acc = [formatted_transcript, current_text_chunk]
RECURSIVE WhisperBlocks(_, _)
WhisperBlocks(segments, acc) ==
    IF segments = <<>>
    THEN IF acc.current # <<>>
         THEN acc.formatted \o <<"\n", "Speaker", ":", " ">> \o acc.current \o <<"\n">>
         ELSE acc.formatted
    ELSE LET cur == acc.current \o Head(segments)
         IN  IF StrLen(cur) > WhisperBlockLen
             THEN WhisperBlocks(Tail(segments),
                      [formatted |-> acc.formatted \o <<"\n", "Speaker", ":", " ">> \o cur \o <<"\n">>,
                       current |-> <<>>])
             ELSE WhisperBlocks(Tail(segments), [formatted |-> acc.formatted, current |-> cur])

\* the try block of transcribe_with_whisper
WhisperTry(local) ==
    IF local.kind \in {"load_fail", "transcribe_fail"} THEN Raise
    ELSE Return(Strip(WhisperBlocks(local.segments, [formatted |-> <<>>, current |-> <<>>])))

\* f"Transcription failed: {str(e)}"
transcribe_with_whisper(local) ==
    LET r == WhisperTry(local) IN
    IF r.raised
    THEN Return(<<"Transcription", " ", "failed", ":", " ">> \o local.message)
    ELSE r

transcribe_audio(keySet, resp, local) ==
    LET viaRemote == transcribe_with_openai(resp)
        viaLocal == transcribe_with_whisper(local)
    IN  IF keySet /\ ~viaRemote.raised
        THEN [raised |-> FALSE, value |-> viaRemote.value, path |-> "remote"]
        ELSE [raised |-> viaLocal.raised, value |-> viaLocal.value, path |-> "local"]

----------------------------------------------------------------------------
(* src/summarization.py *)

\* re.sub(r'\s+', ' ', transcript)
RECURSIVE CollapseSpaces(_)
CollapseSpaces(s) ==
    IF s = <<>> THEN <<>>
    ELSE IF IsSpace(Head(s)) THEN <<" ">> \o CollapseSpaces(LStrip(s))
    ELSE <<Head(s)>> \o CollapseSpaces(Tail(s))

\* re.sub(r'\[.*?\]', '', cleaned): from a '[' to the first ']' after it
RECURSIVE RemoveBracketed(_)
RemoveBracketed(s) ==
    IF s = <<>> THEN <<>>
    ELSE IF Head(s) = "[" /\ \E k \in 2..Len(s) : s[k] = "]"
    THEN LET k == CHOOSE k \in 2..Len(s) : s[k] = "]" /\ \A j \in 2..(k - 1) : s[j] # "]"
         IN  RemoveBracketed(SubSeq(s, k + 1, Len(s)))
    ELSE <<Head(s)>> \o RemoveBracketed(Tail(s))

clean_transcript(t) == Strip(RemoveBracketed(CollapseSpaces(t)))

max_chunk_size == 10000

\* range(0, n, step), from i on
RECURSIVE RangeFrom(_, _, _)
RangeFrom(i, n, step) == IF i < n THEN <<i>> \o RangeFrom(i + step, n, step) ELSE <<>>

Min(a, b) == IF a < b THEN a ELSE b

\* SliceAt with the slice one character short: transcript[i:i+max_chunk_size-1]
SliceOneShort(i, n) == [lo |-> i, hi |-> Min(i + max_chunk_size - 1, n)]

\* transcript[i:i+max_chunk_size] of a transcript of n characters: the slice [lo, hi)
SliceAt(i, n) == [lo |-> i, hi |-> Min(i + max_chunk_size, n)]

\* [transcript[i:i+max_chunk_size] for i in range(0, len(transcript), max_chunk_size)]
OpenAIChunks(n) ==
    LET starts == RangeFrom(0, n, max_chunk_size)
    IN  [k \in 1..Len(starts) |-> SliceAt(starts[k], n)]

\* the message content of the completion that ends the remote path
FinalText(kind) ==
    CASE kind = "sections" ->
             <<"##", " ", "Meeting", " ", "Summary", "\n", "The", " ", "team", " ", "met.", "\n",
               "##", " ", "Key", " ", "Points", "\n", "-", " ", "budget">>
      [] kind = "prose" -> <<"The", " ", "team", " ", "met.">>
      [] kind = "empty" -> <<>>

\* what call number k does: "ok", "raise" or "none" (a completion whose content is None)
CallOutcome(remote, k) == IF remote.failAt = k THEN remote.failKind ELSE "ok"

\* a call sent to the remote service: the slice of the transcript it carries
\* (the combining call carries the chunk summaries instead)
ChunkCall(c) == [kind |-> "chunk", lo |-> c.lo, hi |-> c.hi]
CombineCall == [kind |-> "combine", lo |-> 0, hi |-> 0]
WholeCall(n) == [kind |-> "whole", lo |-> 0, hi |-> n]

SumRaise(calls, chunks) ==
    [raised |-> TRUE, none |-> FALSE, value |-> <<>>, calls |-> calls, chunks |-> chunks]
SumReturn(v, calls, chunks) ==
    [raised |-> FALSE, none |-> FALSE, value |-> v, calls |-> calls, chunks |-> chunks]
SumReturnNone(calls, chunks) ==
    [raised |-> FALSE, none |-> TRUE, value |-> <<>>, calls |-> calls, chunks |-> chunks]

\* the last call of either branch and `return response.choices[0].message.content`
FinalCall(remote, k, calls, chunks) ==
    CASE CallOutcome(remote, k) = "raise" -> SumRaise(calls, chunks)
      [] CallOutcome(remote, k) = "none" -> SumReturnNone(calls, chunks)
      [] OTHER -> SumReturn(FinalText(remote.final), calls, chunks)

summarize_with_openai(t, remote) ==
    LET n == StrLen(t) IN
    IF n > max_chunk_size
    THEN LET chunks == OpenAIChunks(n)
             all == [k \in 1..Len(chunks) |-> ChunkCall(chunks[k])]
         IN  IF \E k \in 1..Len(chunks) : CallOutcome(remote, k) = "raise"
             THEN \* the loop stops at the call that raises
                  SumRaise(SubSeq(all, 1, remote.failAt), chunks)
             ELSE IF \E k \in 1..Len(chunks) : CallOutcome(remote, k) = "none"
             THEN \* " ".join(chunk_summaries) with a None item: TypeError
                  SumRaise(all, chunks)
             ELSE FinalCall(remote, Len(chunks) + 1, Append(all, CombineCall), chunks)
    ELSE FinalCall(remote, 1, <<WholeCall(n)>>, <<>>)

\* the atoms that end in '.', '!' or '?'
EndsSentence(a) ==
    a \in {".", "!", "?", "Hello.", "budget.", "Agreed.", "Thanks.", "Bye!", "met.", "Ok.",
           "approved."}

\* re.split(r'(?<=[.!?])\s+', text)
RECURSIVE SplitSentences(_)
SplitSentences(s) ==
    IF \E i \in 2..Len(s) : IsSpace(s[i]) /\ EndsSentence(s[i - 1])
    THEN LET i == CHOOSE i \in 2..Len(s) :
                      /\ IsSpace(s[i]) /\ EndsSentence(s[i - 1])
                      /\ \A j \in 2..(i - 1) : ~(IsSpace(s[j]) /\ EndsSentence(s[j - 1]))
         IN  <<SubSeq(s, 1, i - 1)>> \o SplitSentences(LStrip(SubSeq(s, i, Len(s))))
    ELSE <<s>>

\* whether r'(Speaker [^:]+):' matches at position i of s
LabelAt(s, i) ==
    /\ i + 3 <= Len(s)
    /\ s[i] = "Speaker"
    /\ s[i + 1] = " "
    /\ s[i + 2] # ":"
    /\ \E j \in (i + 3)..Len(s) : s[j] = ":"

\* re.findall(r'(Speaker [^:]+):', transcript), scanning from position i
RECURSIVE FindLabels(_, _)
FindLabels(s, i) ==
    IF i > Len(s) THEN <<>>
    ELSE IF LabelAt(s, i)
    THEN LET j == CHOOSE j \in (i + 3)..Len(s) :
                      s[j] = ":" /\ \A k \in (i + 3)..(j - 1) : s[k] # ":"
         IN  <<SubSeq(s, i, j - 1)>> \o FindLabels(s, j + 1)
    ELSE FindLabels(s, i + 1)

\* seq[a:b] with 0 <= a <= b
Slice(seq, a, b) == SubSeq(seq, a + 1, Min(b, Len(seq)))

\* seq[-n:]
LastN(seq, n) == IF Len(seq) <= n THEN seq ELSE SubSeq(seq, Len(seq) - n + 1, Len(seq))

MeetingSummaryHeader == <<"##", " ", "Meeting", " ", "Summary", "\n", "\n">>
KeyPointsHeader == <<"##", " ", "Key", " ", "Points", "\n", "\n">>

simple_extractive_summary(t) ==
    LET sentences == SplitSentences(t)
        speaker_turns == FindLabels(t, 1)
        unique_speakers == Range(speaker_turns)
        mid_point == Len(sentences) \div 2
        selected_sentences ==
            Take(sentences, 3) \o Slice(sentences, mid_point, mid_point + 2) \o LastN(sentences, 3)
    IN  MeetingSummaryHeader
        \o Join(selected_sentences, <<" ">>) \o <<"\n", "\n">>
        \o KeyPointsHeader
        \o <<"-", " ", "Meeting", " ", "included", " ", ToString(Cardinality(unique_speakers)),
             " ", "participants", "\n">>
        \o <<"-", " ", "The", " ", "transcript", " ", "contains", " ", ToString(Len(sentences)),
             " ", "sentences", "\n">>
        \o <<"-", " ", "Total", " ", "of", " ", ToString(Len(speaker_turns)), " ", "speaker",
             " ", "changes", " ", "occurred", "\n">>

\* the for loop of chunk_text and the flush after it
\* acc = [chunks, current_chunk, current_length]
RECURSIVE ChunkLoop(_, _, _)
ChunkLoop(words, max_length, acc) ==
    IF words = <<>>
    THEN IF acc.current_chunk # <<>>
         THEN Append(acc.chunks, Join(acc.current_chunk, <<" ">>))
         ELSE acc.chunks
    ELSE LET word == Head(words) IN
         IF acc.current_length + StrLen(word) + 1 > max_length
         THEN ChunkLoop(Tail(words), max_length,
                  [chunks |-> Append(acc.chunks, Join(acc.current_chunk, <<" ">>)),
                   current_chunk |-> <<word>>,
                   current_length |-> StrLen(word)])
         ELSE ChunkLoop(Tail(words), max_length,
                  [chunks |-> acc.chunks,
                   current_chunk |-> Append(acc.current_chunk, word),
                   current_length |-> acc.current_length + StrLen(word) + 1])

chunk_text(text, max_length) ==
    ChunkLoop(SplitWords(text), max_length,
              [chunks |-> <<>>, current_chunk |-> <<>>, current_length |-> 0])

\* chunk_text(transcript, max_length=1000)
LocalChunkLen == 1000

\* len(sentence) > 10
MinKeyPointLen == 10

\* sentences[:5]
MaxKeyPoints == 5

\* summary[0]['summary_text'] of the local model for one chunk
LocalSummaryText(kind) ==
    CASE kind = "short" -> <<"Ok.">>
      [] kind = "text" -> <<"The", " ", "budget", " ", "was", " ", "approved.", " ", "Thanks.">>

\* what the local model does for chunk number k: "fail", "short" or "text"
LocalOutcome(local, k) == local.pattern[((k - 1) % Len(local.pattern)) + 1]

\* the chunk loop of summarize_with_transformers: a chunk whose call raises is skipped
LocalChunkSummaries(chunks, local) ==
    LET each == [k \in 1..Len(chunks) |->
                    IF LocalOutcome(local, k) = "fail" THEN <<>>
                    ELSE << LocalSummaryText(LocalOutcome(local, k)) >>]
    IN  Concat(each)

\* the "- sentence\n" lines of the Key Points section
KeyPointBullets(combined_summary) ==
    LET sentences == Take(SplitSentences(combined_summary), MaxKeyPoints)
        kept == SelectSeq(sentences, LAMBDA x : StrLen(x) > MinKeyPointLen)
    IN  Concat([i \in 1..Len(kept) |-> <<"-", " ">> \o kept[i] \o <<"\n">>])

summarize_with_transformers(t, local) ==
    IF local.load = "fail" THEN SumRaise(<<>>, <<>>)     \* pipeline(...) raises
    ELSE LET chunks == chunk_text(t, LocalChunkLen)
             combined_summary == Join(LocalChunkSummaries(chunks, local), <<" ">>)
         IN  SumReturn(MeetingSummaryHeader \o combined_summary \o <<"\n", "\n">>
                           \o KeyPointsHeader \o KeyPointBullets(combined_summary),
                       <<>>, <<>>)

\* response.choices[0].message.content of the completion for chunk number k
ChunkSummaryText(k) == <<"<chunk-summary>", ToString(k)>>

\* the list chunk_summaries when summarize_with_openai stops: one item for each
\* chunk call that returned before the call that raises
chunk_summaries(t, remote) ==
    LET n == StrLen(t)
        made == IF n > max_chunk_size THEN Len(OpenAIChunks(n)) ELSE 0
        got == IF remote.failAt \in 1..made THEN remote.failAt - 1 ELSE made
    IN  [k \in 1..got |-> ChunkSummaryText(k)]

\* generate_summary with the chunk summaries obtained before the failure kept
\* in front of the fallback's document
generate_summary_keep_partial(t, keySet, remote, has_transformers, local) ==
    LET cleaned_transcript == clean_transcript(t)
        viaRemote == summarize_with_openai(cleaned_transcript, remote)
        attempt == IF keySet THEN viaRemote ELSE SumRaise(<<>>, <<>>)
        partial == IF keySet THEN Concat(chunk_summaries(cleaned_transcript, remote)) ELSE <<>>
        fallback == IF has_transformers
                    THEN summarize_with_transformers(cleaned_transcript, local)
                    ELSE SumReturn(simple_extractive_summary(cleaned_transcript), <<>>, <<>>)
    IN  IF keySet /\ ~viaRemote.raised
        THEN [raised |-> FALSE, none |-> viaRemote.none, value |-> viaRemote.value,
              path |-> "remote", calls |-> viaRemote.calls, chunks |-> viaRemote.chunks]
        ELSE [raised |-> fallback.raised, none |-> FALSE, value |-> partial \o fallback.value,
              path |-> IF has_transformers THEN "transformers" ELSE "rules",
              calls |-> attempt.calls, chunks |-> attempt.chunks]

generate_summary(t, keySet, remote, has_transformers, local) ==
    LET cleaned_transcript == clean_transcript(t)
        viaRemote == summarize_with_openai(cleaned_transcript, remote)
        attempt == IF keySet THEN viaRemote ELSE SumRaise(<<>>, <<>>)
        fallback == IF has_transformers
                    THEN summarize_with_transformers(cleaned_transcript, local)
                    ELSE SumReturn(simple_extractive_summary(cleaned_transcript), <<>>, <<>>)
    IN  IF keySet /\ ~viaRemote.raised
        THEN [raised |-> FALSE, none |-> viaRemote.none, value |-> viaRemote.value,
              path |-> "remote", calls |-> viaRemote.calls, chunks |-> viaRemote.chunks]
        ELSE [raised |-> fallback.raised, none |-> FALSE, value |-> fallback.value,
              path |-> IF has_transformers THEN "transformers" ELSE "rules",
              calls |-> attempt.calls, chunks |-> attempt.chunks]

----------------------------------------------------------------------------
(* Inputs of the transcription stage *)

MaxSegments == 3
MaxLocalSegments == 3

RemoteSegment == [speaker : {"A", "B", Missing}, text : {<<"hi">>, <<"there">>, <<Missing>>}]

TranscriptionResponses ==
    {[kind |-> "raise", segments |-> <<>>, text |-> <<>>],
     [kind |-> "neither", segments |-> <<>>, text |-> <<>>]}
    \cup {[kind |-> "text", segments |-> <<>>, text |-> t] : t \in {<<>>, <<"hello", " ", "there">>}}
    \cup {[kind |-> "segments", segments |-> ss, text |-> <<>>] :
              ss \in SeqsUpTo(RemoteSegment, MaxSegments)}

NoTranscription == [kind |-> "unused", segments |-> <<>>, text |-> <<>>]

\* segment.get("text", ""): nothing, one short word, 150 letters
LocalSegmentTexts == {<<>>, <<"w">>, <<"<letters:150>">>}

WhisperOutcomes ==
    {[kind |-> k, segments |-> <<>>, message |-> m] :
         k \in {"load_fail", "transcribe_fail"}, m \in {<<>>, <<"error">>}}
    \cup {[kind |-> "ok", segments |-> ss, message |-> <<>>] :
              ss \in SeqsUpTo(LocalSegmentTexts, MaxLocalSegments)}

NoWhisper == [kind |-> "unused", segments |-> <<>>, message |-> <<>>]

----------------------------------------------------------------------------
(* The transcription stage as a state machine *)

TrIdle ==
    /\ trKeySet = FALSE
    /\ trRemote = NoTranscription
    /\ trLocal = NoWhisper
    /\ transcript = <<>>
    /\ trPath = "none"
    /\ trPc = "idle"

InitTranscribe ==
    /\ trKeySet \in BOOLEAN
    /\ trRemote \in (IF trKeySet THEN TranscriptionResponses ELSE {NoTranscription})
    /\ trLocal \in (IF trKeySet /\ ~transcribe_with_openai(trRemote).raised
                    THEN {NoWhisper} ELSE WhisperOutcomes)
    /\ transcript = <<>>
    /\ trPath = "none"
    /\ trPc = "start"

TranscribeAudio ==
    /\ trPc = "start"
    /\ LET r == transcribe_audio(trKeySet, trRemote, trLocal) IN
          /\ trPc' = IF r.raised THEN "raised" ELSE "done"
          /\ transcript' = r.value
          /\ trPath' = r.path
    /\ UNCHANGED <<trKeySet, trRemote, trLocal>>
    /\ UNCHANGED <<titleVars, smVars, ckVars, pipeVars, clVars>>

----------------------------------------------------------------------------
(* Inputs of the summarization stage *)

MaxTurns == 3

\* speaker turns as the Transcriber writes them: tagged by the remote segment
\* path, or with the generic label; one carries a bracketed annotation and one
\* is a single word that makes the turn exactly max_chunk_size characters long
TurnKinds ==
    { <<"Speaker", " ", "A", ":", " ", "Hello.">>,
      <<"Speaker", " ", "B", ":", " ", "Let's", " ", "discuss", " ", "budget.">>,
      <<"Speaker", " ", "A", ":", " ", "Agreed.">>,
      <<"Speaker", ":", " ", "[", "noise", "]", " ", "Thanks.", " ", "Bye!">>,
      <<"Speaker", " ", "A", ":", " ", "<letters:9989>">> }

SummaryTranscripts == {Join(turns, <<"\n">>) : turns \in SeqsUpTo(TurnKinds, MaxTurns)}

\* the number of remote calls summarize_with_openai makes when none fails
CallsNeeded(t) ==
    LET n == StrLen(clean_transcript(t)) IN
    IF n > max_chunk_size THEN Len(OpenAIChunks(n)) + 1 ELSE 1

\* every call succeeds, or exactly one call raises or returns no content
RemoteOutcomes(t) ==
    {[failAt |-> 0, failKind |-> "ok", final |-> f] : f \in {"sections", "prose", "empty"}}
    \cup {[failAt |-> k, failKind |-> fk, final |-> "sections"] :
              k \in 1..CallsNeeded(t), fk \in {"raise", "none"}}

NoRemote == [failAt |-> 0, failKind |-> "unused", final |-> "unused"]

LocalModelOutcomes ==
    {[load |-> "fail", pattern |-> <<"text", "text">>]}
    \cup {[load |-> "ok", pattern |-> p] : p \in [1..2 -> {"fail", "short", "text"}]}

NoLocal == [load |-> "unused", pattern |-> <<"text", "text">>]

----------------------------------------------------------------------------
(* The summarization stage as a state machine *)

SmIdle ==
    /\ smTranscript = <<>>
    /\ smEnvKey = FALSE
    /\ smRemote = NoRemote
    /\ smHasTransformers = FALSE
    /\ smLocal = NoLocal
    /\ smChunks = <<>>
    /\ smCalls = <<>>
    /\ smSummary = <<>>
    /\ smPath = "none"
    /\ smPc = "idle"

InitSummary ==
    /\ smTranscript \in SummaryTranscripts
    /\ smEnvKey \in BOOLEAN
    /\ smRemote \in (IF smEnvKey THEN RemoteOutcomes(smTranscript) ELSE {NoRemote})
    /\ smHasTransformers \in BOOLEAN
    /\ smLocal \in (IF smHasTransformers /\ (~smEnvKey \/ smRemote.failAt > 0)
                    THEN LocalModelOutcomes ELSE {NoLocal})
    /\ smChunks = <<>>
    /\ smCalls = <<>>
    /\ smSummary = <<>>
    /\ smPath = "none"
    /\ smPc = "start"

GenerateSummary ==
    /\ smPc = "start"
    /\ LET r == generate_summary(smTranscript, smEnvKey, smRemote, smHasTransformers, smLocal) IN
          /\ smPc' = IF r.raised THEN "raised" ELSE IF r.none THEN "none" ELSE "done"
          /\ smSummary' = r.value
          /\ smPath' = r.path
          /\ smCalls' = r.calls
          /\ smChunks' = r.chunks
    /\ UNCHANGED <<smTranscript, smEnvKey, smRemote, smHasTransformers, smLocal>>
    /\ UNCHANGED <<titleVars, trVars, ckVars, pipeVars, clVars>>

----------------------------------------------------------------------------
(* chunk_text on its own inputs *)

MaxChunkAtoms == 5
MaxChunkLen == 4

\* words of one, two and three characters, and the blank between words
ChunkAtoms == {"a", "bb", "ccc", " "}

CkIdle ==
    /\ ckText = <<>>
    /\ ckMax = 0
    /\ ckChunks = <<>>
    /\ ckPc = "idle"

InitChunk ==
    /\ ckText \in SeqsUpTo(ChunkAtoms, MaxChunkAtoms)
    /\ ckMax \in 1..MaxChunkLen
    /\ ckChunks = <<>>
    /\ ckPc = "start"

ChunkText ==
    /\ ckPc = "start"
    /\ ckChunks' = chunk_text(ckText, ckMax)
    /\ ckPc' = "done"
    /\ UNCHANGED <<ckText, ckMax>>
    /\ UNCHANGED <<titleVars, trVars, smVars, pipeVars, clVars>>

----------------------------------------------------------------------------
(* clean_transcript on its own inputs *)

MaxCleanAtoms == 6

\* a word, the two kinds of whitespace, and the brackets of an annotation
CleanAtoms == {"a", " ", "\n", "[", "]"}

ClIdle ==
    /\ clText = <<>>
    /\ clOut = <<>>
    /\ clTwice = <<>>
    /\ clPc = "idle"

\* "a [x] b": an annotation between two spaces
AXB == <<"a", " ", "[", "x", "]", " ", "b">>

InitClean ==
    /\ clText \in SeqsUpTo(CleanAtoms, MaxCleanAtoms) \cup {AXB}
    /\ clOut = <<>>
    /\ clTwice = <<>>
    /\ clPc = "start"

\* cleaned_transcript = clean_transcript(transcript)
CleanTranscript ==
    /\ clPc = "start"
    /\ clOut' = clean_transcript(clText)
    /\ clPc' = "cleaned"
    /\ UNCHANGED <<clText, clTwice>>
    /\ UNCHANGED <<titleVars, trVars, smVars, ckVars, pipeVars>>

\* clean_transcript applied to a text that clean_transcript returned
CleanAgain ==
    /\ clPc = "cleaned"
    /\ clTwice' = clean_transcript(clOut)
    /\ clPc' = "done"
    /\ UNCHANGED <<clText, clOut>>
    /\ UNCHANGED <<titleVars, trVars, smVars, ckVars, pipeVars>>

----------------------------------------------------------------------------
(* src/main.py: the request handler, and the credential each stage reads *)

NumRequests == 2

Requests == 1..NumRequests

NoKey == "none"

\* the key a request may carry in its X-API-Key header
KeyOf(r) == "key-" \o ToString(r)

NoOutput == [path |-> "none"]

ErrorPartial(rq) ==
    [status |-> 200, summary |-> rq.summary, suggested_titles |-> rq.titles,
     full_transcript |-> rq.transcript]

\* raise HTTPException(status_code=500, ...): no stage output is returned
ErrorResponse(rq) ==
    [status |-> 500, summary |-> NoOutput, suggested_titles |-> NoOutput,
     full_transcript |-> NoOutput]

\* return SummaryResponse(summary=..., suggested_titles=..., full_transcript=...);
\* a summary that is None fails the model's validation, which the handler's
\* except turns into the 500
SummaryResponse(rq) ==
    IF rq.summary.none THEN ErrorResponse(rq)
    ELSE [status |-> 200, summary |-> rq.summary, suggested_titles |-> rq.titles,
          full_transcript |-> rq.transcript]

NoResponse == [status |-> 0]

NewRequest ==
    [pc |-> "new", header |-> NoKey, transcript |-> NoOutput, summary |-> NoOutput,
     titles |-> NoOutput, response |-> NoResponse, log |-> <<>>]

\* transcribe_audio: `if openai.api_key:` decides whether the remote path is tried
TranscribeStage(r, apiKey, envKey, remoteOk) ==
    [req |-> r,
     path |-> IF apiKey # NoKey /\ remoteOk THEN "remote" ELSE "local",
     remoteAttempted |-> apiKey # NoKey,
     env |-> envKey]

\* generate_summary: `if os.getenv("OPENAI_API_KEY"):` decides
SummaryStage(t, envKey, remoteOk, contentNone, hasTf) ==
    [from |-> t,
     path |-> IF envKey # NoKey /\ remoteOk THEN "remote"
              ELSE IF hasTf THEN "transformers" ELSE "rules",
     key |-> envKey,
     none |-> envKey # NoKey /\ remoteOk /\ contentNone]

\* generate_titles: `if os.getenv("OPENAI_API_KEY"):` decides
TitleStage(sm, envKey, remoteOk) ==
    [from |-> sm,
     path |-> IF envKey # NoKey /\ remoteOk THEN "remote" ELSE "rules",
     key |-> envKey,
     count |-> 3]

PipeIdle ==
    /\ osEnvKey = NoKey
    /\ openaiApiKey = NoKey
    /\ hasTransformers = FALSE
    /\ running = 0
    /\ reqs = <<>>

\* the process starts with or without OPENAI_API_KEY in its environment;
\* importing transcription.py copies it to openai.api_key
InitPipeline ==
    /\ osEnvKey \in {NoKey, "key-0"}
    /\ openaiApiKey = osEnvKey
    /\ hasTransformers \in BOOLEAN
    /\ running = 0
    /\ reqs = [r \in Requests |-> NewRequest]

Finish(r, rq, resp) ==
    /\ reqs' = [reqs EXCEPT ![r] = [rq EXCEPT !.pc = "responded", !.response = resp]]
    /\ running' = 0

\* Arrive without the wait for the event loop: a handler that could start
\* while another request's stages are running
ArrivePreemptive(r) ==
    /\ reqs[r].pc = "new"
    /\ \E x_api_key \in {NoKey, KeyOf(r)}, tempFileOk \in BOOLEAN :
          /\ osEnvKey' = IF x_api_key # NoKey THEN x_api_key ELSE osEnvKey
          /\ IF tempFileOk
             THEN /\ reqs' = [reqs EXCEPT ![r].pc = "reading", ![r].header = x_api_key]
                  /\ running' = running
             ELSE /\ reqs' = [reqs EXCEPT ![r] = [reqs[r] EXCEPT !.header = x_api_key,
                                                                 !.pc = "responded",
                                                                 !.response = ErrorResponse(reqs[r])]]
                  /\ running' = running
    /\ UNCHANGED <<openaiApiKey, hasTransformers>>
    /\ UNCHANGED <<titleVars, trVars, smVars, ckVars, clVars>>

\* the handler from its start to `await audio_file.read()`: the header override,
\* then the temporary file
Arrive(r) ==
    /\ running = 0
    /\ reqs[r].pc = "new"
    /\ \E x_api_key \in {NoKey, KeyOf(r)}, tempFileOk \in BOOLEAN :
          /\ osEnvKey' = IF x_api_key # NoKey THEN x_api_key ELSE osEnvKey
          /\ IF tempFileOk
             THEN /\ reqs' = [reqs EXCEPT ![r].pc = "reading", ![r].header = x_api_key]
                  /\ running' = 0
             ELSE Finish(r, [reqs[r] EXCEPT !.header = x_api_key],
                         ErrorResponse(reqs[r]))
    /\ UNCHANGED <<openaiApiKey, hasTransformers>>
    /\ UNCHANGED <<titleVars, trVars, smVars, ckVars, clVars>>

\* the upload has been read; from here to the response nothing awaits
ReadDone(r) ==
    /\ running = 0
    /\ reqs[r].pc = "reading"
    /\ \E readOk \in BOOLEAN :
          IF readOk
          THEN /\ reqs' = [reqs EXCEPT ![r].pc = "transcribing"]
               /\ running' = r
          ELSE Finish(r, reqs[r], ErrorResponse(reqs[r]))
    /\ UNCHANGED <<osEnvKey, openaiApiKey, hasTransformers>>
    /\ UNCHANGED <<titleVars, trVars, smVars, ckVars, clVars>>

\* Step 1: transcript = transcribe_audio(temp_file_path)
Transcribe(r) ==
    /\ running = r
    /\ reqs[r].pc = "transcribing"
    /\ \E remoteOk \in (IF openaiApiKey # NoKey THEN BOOLEAN ELSE {FALSE}) :
          reqs' = [reqs EXCEPT ![r].pc = "summarizing",
                               ![r].transcript = TranscribeStage(r, openaiApiKey, osEnvKey, remoteOk),
                               ![r].log = Append(@, "transcribe")]
    /\ UNCHANGED <<osEnvKey, openaiApiKey, hasTransformers, running>>
    /\ UNCHANGED <<titleVars, trVars, smVars, ckVars, clVars>>

\* Step 2: summary = generate_summary(transcript); the local pipeline may fail to
\* load, which generate_summary does not catch
Summarize(r) ==
    /\ running = r
    /\ reqs[r].pc = "summarizing"
    /\ \E remoteOk \in (IF osEnvKey # NoKey THEN BOOLEAN ELSE {FALSE}),
          contentNone \in BOOLEAN, loadOk \in BOOLEAN :
          LET sm == SummaryStage(reqs[r].transcript, osEnvKey, remoteOk, contentNone,
                                 hasTransformers)
              rq == [reqs[r] EXCEPT !.log = Append(@, "summarize")]
          IN  IF sm.path = "transformers" /\ ~loadOk
              THEN Finish(r, rq, ErrorResponse(rq))
              ELSE /\ reqs' = [reqs EXCEPT ![r] = [rq EXCEPT !.pc = "titling", !.summary = sm]]
                   /\ running' = running
    /\ UNCHANGED <<osEnvKey, openaiApiKey, hasTransformers>>
    /\ UNCHANGED <<titleVars, trVars, smVars, ckVars, clVars>>

\* Step 3: titles = generate_titles(summary)
Titles(r) ==
    /\ running = r
    /\ reqs[r].pc = "titling"
    /\ \E remoteOk \in (IF osEnvKey # NoKey THEN BOOLEAN ELSE {FALSE}) :
          reqs' = [reqs EXCEPT ![r].pc = "responding",
                               ![r].titles = TitleStage(reqs[r].summary, osEnvKey, remoteOk),
                               ![r].log = Append(@, "title")]
    /\ UNCHANGED <<osEnvKey, openaiApiKey, hasTransformers, running>>
    /\ UNCHANGED <<titleVars, trVars, smVars, ckVars, clVars>>

\* return SummaryResponse(...), and the finally clause
Respond(r) ==
    /\ running = r
    /\ reqs[r].pc = "responding"
    /\ Finish(r, reqs[r], SummaryResponse(reqs[r]))
    /\ UNCHANGED <<osEnvKey, openaiApiKey, hasTransformers>>
    /\ UNCHANGED <<titleVars, trVars, smVars, ckVars, clVars>>

Next ==
    \E r \in Requests :
        Arrive(r) \/ ReadDone(r) \/ Transcribe(r) \/ Summarize(r) \/ Titles(r) \/ Respond(r)

----------------------------------------------------------------------------
(* The title stage as a state machine *)

TitleIdle ==
    /\ summary = <<>>
    /\ titleEnvKey = FALSE
    /\ titleRemote = NoCall
    /\ titlePc = "idle"
    /\ topics = <<>>
    /\ titles = <<>>
    /\ titlePath = "none"

InitTopics ==
    /\ summary \in TopicSummaries
    /\ titleEnvKey = FALSE
    /\ titleRemote = NoCall
    /\ titlePc = "start"
    /\ topics = <<>>
    /\ titles = <<>>
    /\ titlePath = "none"

ExtractKeyTopics ==
    /\ titlePc = "start"
    /\ topics' = extract_key_topics(summary)
    /\ titlePc' = "done"
    /\ UNCHANGED <<summary, titleEnvKey, titleRemote, titles, titlePath>>
    /\ UNCHANGED <<trVars, smVars, ckVars, pipeVars, clVars>>

InitTitles ==
    /\ summary \in TitleSummaries
    /\ titleEnvKey \in BOOLEAN
    /\ titleRemote \in (IF titleEnvKey THEN TitleResponses ELSE {NoCall})
    /\ titlePc = "start"
    /\ topics = <<>>
    /\ titles = <<>>
    /\ titlePath = "none"

\* random.shuffle is only called on the rule-based path
ShuffleOutcomes(keySet, resp) ==
    IF keySet /\ ~generate_titles_with_openai(<<>>, resp).raised
    THEN {[i \in 1..3 |-> i]}
    ELSE Shuffles

GenerateTitles ==
    /\ titlePc = "start"
    /\ \E shuffle \in ShuffleOutcomes(titleEnvKey, titleRemote) :
          LET r == generate_titles(summary, titleEnvKey, titleRemote, shuffle) IN
          /\ titlePc' = IF r.raised THEN "raised" ELSE "done"
          /\ titles' = r.value
          /\ titlePath' = r.path
    /\ UNCHANGED <<summary, titleEnvKey, titleRemote, topics>>
    /\ UNCHANGED <<trVars, smVars, ckVars, pipeVars, clVars>>

----------------------------------------------------------------------------
(* Specifications: each stage on its own inputs *)

TopicsInit == InitTopics /\ TrIdle /\ SmIdle /\ CkIdle /\ PipeIdle /\ ClIdle

SpecTopics == TopicsInit /\ [][ExtractKeyTopics]_vars

TitlesInit == InitTitles /\ TrIdle /\ SmIdle /\ CkIdle /\ PipeIdle /\ ClIdle

SpecTitles == TitlesInit /\ [][GenerateTitles]_vars

TranscribeInit == InitTranscribe /\ TitleIdle /\ SmIdle /\ CkIdle /\ PipeIdle /\ ClIdle

SpecTranscribe == TranscribeInit /\ [][TranscribeAudio]_vars

SummaryInit == InitSummary /\ TitleIdle /\ TrIdle /\ CkIdle /\ PipeIdle /\ ClIdle

SpecSummary == SummaryInit /\ [][GenerateSummary]_vars

ChunkInit == InitChunk /\ TitleIdle /\ TrIdle /\ SmIdle /\ PipeIdle /\ ClIdle

SpecChunk == ChunkInit /\ [][ChunkText]_vars

CleanInit == InitClean /\ TitleIdle /\ TrIdle /\ SmIdle /\ CkIdle /\ PipeIdle

SpecClean == CleanInit /\ [][CleanTranscript \/ CleanAgain]_vars

\* the server process handling NumRequests requests
Init == InitPipeline /\ TitleIdle /\ TrIdle /\ SmIdle /\ CkIdle /\ ClIdle

Spec == Init /\ [][Next]_vars

----------------------------------------------------------------------------
(* Claims *)

NonEmptyStr(t) == StrLen(t) > 0

\* C1: generate_titles never raises and returns exactly 3 non-empty strings,
\* whether the remote path succeeds (with any response text), fails, or no
\* credential is configured.
C1_ThreeNonEmptyTitles ==
    /\ titlePc # "raised"
    /\ titlePc = "done" =>
          /\ Len(titles) = 3
          /\ \A i \in 1..3 : NonEmptyStr(titles[i])
          /\ titlePath = "remote" => titleEnvKey /\ titleRemote.kind = "ok"

\* the remote path succeeded with a response that has no usable line
C1_Witness ==
    /\ titlePc = "done"
    /\ titlePath = "remote"
    /\ ParseTitles(titleRemote.content) = <<>>
    /\ Len(titles) = 3

\* C2: transcribe_audio never raises and always returns a non-empty string,
\* whatever the remote call and the local model do.
C2_NonEmptyTranscript ==
    /\ trPc # "raised"
    /\ trPc = "done" => StrLen(transcript) > 0

\* the speaker tag of a segment; one without a tag counts as tagged Unknown
TagOf(segment) == IF segment.speaker = Missing THEN "Unknown" ELSE segment.speaker

\* the first segment of each maximal run of adjacent segments with one tag
RunStarts(segs) ==
    {i \in 1..Len(segs) : i = 1 \/ TagOf(segs[i]) # TagOf(segs[i - 1])}

RunEnd(segs, i) ==
    CHOOSE j \in i..Len(segs) :
        /\ \A k \in i..j : TagOf(segs[k]) = TagOf(segs[i])
        /\ j = Len(segs) \/ TagOf(segs[j + 1]) # TagOf(segs[i])

NthRunStart(segs, n) ==
    CHOOSE i \in RunStarts(segs) : Cardinality({j \in RunStarts(segs) : j < i}) = n - 1

\* the turn a run must give: its header, then its texts joined by single spaces
TurnOfRun(segs, i) ==
    <<"Speaker", " ", TagOf(segs[i]), ":", " ">>
        \o Join([k \in 1..(RunEnd(segs, i) - i + 1) |-> segs[i + k - 1].text], <<" ">>)

\* the turns of a transcript: its lines
TurnLines(t) == IF t = <<>> THEN <<>> ELSE SplitOn(t, "\n")

TurnsMatchRuns(segs, t) ==
    /\ Len(TurnLines(t)) = Cardinality(RunStarts(segs))
    /\ \A n \in 1..Len(TurnLines(t)) : TurnLines(t)[n] = TurnOfRun(segs, NthRunStart(segs, n))

HiThereHey ==
    << [speaker |-> "A", text |-> <<"hi">>], [speaker |-> "A", text |-> <<"there">>],
       [speaker |-> "B", text |-> <<"hey">>] >>

\* C5: in the remote path with segments, the transcript has one turn per maximal
\* run of adjacent same-speaker segments, in segment order, each holding the
\* run's texts in order joined by single spaces; (A,hi),(A,there),(B,hey)
\* gives 2 turns, the first "Speaker A: hi there".
C5_TurnsAreSpeakerRuns ==
    /\ (trPc = "done" /\ trPath = "remote" /\ trRemote.kind = "segments")
          => TurnsMatchRuns(trRemote.segments, transcript)
    /\ LET r == transcribe_with_openai([kind |-> "segments", segments |-> HiThereHey, text |-> <<>>])
       IN  /\ ~r.raised
           /\ Len(TurnLines(r.value)) = 2
           /\ TurnLines(r.value)[1] = <<"Speaker", " ", "A", ":", " ", "hi", " ", "there">>

\* three segments, the first two of one speaker merged, the third of another
C5_Witness ==
    /\ trPc = "done"
    /\ trPath = "remote"
    /\ trRemote.kind = "segments"
    /\ Len(trRemote.segments) = 3
    /\ RunStarts(trRemote.segments) = {1, 3}
    /\ Len(TurnLines(transcript)) = 2

\* whether pat occurs in s as a run of adjacent atoms
Contains(s, pat) ==
    \E i \in 1..(Len(s) - Len(pat) + 1) : SubSeq(s, i, i + Len(pat) - 1) = pat

IndexOf(s, pat) ==
    CHOOSE i \in 1..(Len(s) - Len(pat) + 1) :
        /\ SubSeq(s, i, i + Len(pat) - 1) = pat
        /\ \A j \in 1..(i - 1) : SubSeq(s, j, j + Len(pat) - 1) # pat

KeyPointsMarker == <<"Key", " ", "Points">>

\* some text that is not whitespace stands before the Key Points marker
HasNarrative(doc) ==
    /\ Contains(doc, KeyPointsMarker)
    /\ \E i \in 1..(IndexOf(doc, KeyPointsMarker) - 1) : ~IsSpace(doc[i]) /\ ~IsHash(doc[i])

\* C3: for every transcript and whichever path produces the result,
\* generate_summary returns, without raising, a document with a narrative
\* section and a "Key Points" marker.
C3_TwoSectionSummary ==
    smPc \notin {"idle", "start"} =>
        /\ smPc = "done"
        /\ Contains(smSummary, KeyPointsMarker)
        /\ HasNarrative(smSummary)

\* the atom that follows the first occurrence of pat in doc
AtomAfter(doc, pat) == doc[IndexOf(doc, pat) + Len(pat)]

\* the "Speaker <tag>:" labels of a text, by position
LabelPositions(t) ==
    {i \in 1..(Len(t) - 3) : t[i] = "Speaker" /\ t[i + 1] = " " /\ t[i + 3] = ":"}

\* the sentences of a text: the pieces its sentence ends (a '.', '!' or '?'
\* followed by whitespace) cut it into
SentenceCount(t) ==
    1 + Cardinality({i \in 1..(Len(t) - 1) : EndsSentence(t[i]) /\ IsSpace(t[i + 1])})

\* the changes from one speaker turn to the next
Transitions(t) ==
    IF LabelPositions(t) = {} THEN 0 ELSE Cardinality(LabelPositions(t)) - 1

\* C6: the rule-based summary's Key Points report the number of distinct
\* speaker labels, the number of sentences and the number of speaker-turn
\* transitions of the normalized transcript.
C6_KeyPointStatistics ==
    (smPc = "done" /\ smPath = "rules") =>
        LET t == clean_transcript(smTranscript) IN
        /\ AtomAfter(smSummary, <<"Meeting", " ", "included", " ">>)
               = ToString(Cardinality({SubSeq(t, i, i + 2) : i \in LabelPositions(t)}))
        /\ AtomAfter(smSummary, <<"transcript", " ", "contains", " ">>)
               = ToString(SentenceCount(t))
        /\ AtomAfter(smSummary, <<"Total", " ", "of", " ">>) = ToString(Transitions(t))

\* words of a text, by Python's str.split
WordsOf(t) == SplitWords(t)

\* C7: every chunk of chunk_text is a non-empty run of whole words of the input
\* joined by single spaces, the chunks' words in order are the input's words,
\* and no chunk is longer than max_length.
C7_WordBoundedChunks ==
    ckPc = "done" =>
        /\ \A k \in 1..Len(ckChunks) :
              /\ ckChunks[k] # <<>>
              /\ ckChunks[k] = Join(WordsOf(ckChunks[k]), <<" ">>)
              /\ StrLen(ckChunks[k]) <= ckMax
        /\ Concat([k \in 1..Len(ckChunks) |-> WordsOf(ckChunks[k])]) = WordsOf(ckText)

\* the slices are contiguous, start at 0, end at n and are full but for the last
SlicesCover(chunks, n) ==
    /\ chunks # <<>>
    /\ chunks[1].lo = 0
    /\ chunks[Len(chunks)].hi = n
    /\ \A k \in 1..(Len(chunks) - 1) : chunks[k + 1].lo = chunks[k].hi
    /\ \A k \in 1..Len(chunks) : chunks[k].lo < chunks[k].hi /\ chunks[k].hi - chunks[k].lo <= max_chunk_size
    /\ \A k \in 1..(Len(chunks) - 1) : chunks[k].hi - chunks[k].lo = max_chunk_size

\* m = ceil(n / max_chunk_size)
IsCeilOfChunks(m, n) == (m - 1) * max_chunk_size < n /\ n <= m * max_chunk_size

\* C8: in the remote path a normalized transcript of more than max_chunk_size
\* characters is split into ceil(L/S) contiguous slices, full but for the last,
\* that cover it in index order, and the chunk calls carry them in that order;
\* a shorter one is sent whole in one call; 25000 characters give 3 chunks.
C8_ContiguousChunks ==
    /\ (smPc \in {"done", "none", "raised"} /\ smEnvKey) =>
          LET n == StrLen(clean_transcript(smTranscript)) IN
          IF n > max_chunk_size
          THEN /\ SlicesCover(smChunks, n)
               /\ IsCeilOfChunks(Len(smChunks), n)
               /\ \A k \in 1..Len(smCalls) :
                     \/ k <= Len(smChunks) /\ smCalls[k] = ChunkCall(smChunks[k])
                     \/ k = Len(smChunks) + 1 /\ smCalls[k].kind = "combine"
          ELSE smChunks = <<>> /\ smCalls = <<WholeCall(n)>>
    /\ Len(OpenAIChunks(25000)) = 3
    /\ SlicesCover(OpenAIChunks(25000), 25000)

\* a transcript just over two chunks long went through the remote path whole
C8_Witness ==
    /\ smPc = "done"
    /\ smPath = "remote"
    /\ Len(smChunks) = 3
    /\ smChunks[3].hi - smChunks[3].lo < max_chunk_size
    /\ Len(smCalls) = 4

StageOrder == <<"transcribe", "summarize", "title">>

\* the stages that ran for a request ran in pipeline order, each once, and each
\* took the output of the one before it
StagesChained(r) ==
    LET rq == reqs[r] IN
    /\ Len(rq.log) <= 3
    /\ rq.log = SubSeq(StageOrder, 1, Len(rq.log))
    /\ (rq.transcript.path # "none") = (Len(rq.log) >= 1)
    /\ rq.transcript.path # "none" => rq.transcript.req = r
    /\ rq.summary.path # "none" => Len(rq.log) >= 2 /\ rq.summary.from = rq.transcript
    /\ rq.titles.path # "none" => Len(rq.log) = 3 /\ rq.titles.from = rq.summary

\* C4: a request ends in one of two ways: a response with the summary, the 3
\* titles and the transcript of its own run, in which transcribe, summarize and
\* title ran in that order on each other's outputs, or a 500 that carries no
\* stage output; no response carries the output of only some stages.
C4_TotalSuccessOrError ==
    \A r \in Requests :
        LET rq == reqs[r] IN
        /\ StagesChained(r)
        /\ (rq.pc = "responded") = (rq.response.status # 0)
        /\ rq.response.status \in {0, 200, 500}
        /\ rq.response.status = 500 =>
              /\ rq.response.summary = NoOutput
              /\ rq.response.suggested_titles = NoOutput
              /\ rq.response.full_transcript = NoOutput
        /\ rq.response.status = 200 =>
              /\ rq.log = StageOrder
              /\ rq.response.full_transcript = rq.transcript /\ rq.transcript.req = r
              /\ rq.response.summary = rq.summary /\ rq.summary.from = rq.transcript
              /\ rq.response.suggested_titles = rq.titles /\ rq.titles.from = rq.summary
              /\ rq.titles.count = 3

\* one request answered in full, another answered 500 after its transcription
\* and summarization had run
C4_Witness ==
    \E r, q \in Requests :
        /\ reqs[r].response.status = 200
        /\ reqs[q].response.status = 500
        /\ Len(reqs[q].log) >= 2

\* C10: when a credential is configured as a request is handled, set at startup
\* or by the request's header, its transcription is attempted remotely; the
\* local path runs only with no credential or after the remote attempt failed.
C10_RemoteTranscriptionWhenConfigured ==
    \A r \in Requests :
        reqs[r].transcript.path # "none" =>
            /\ reqs[r].transcript.env # NoKey => reqs[r].transcript.remoteAttempted
            /\ reqs[r].transcript.path = "local" =>
                  reqs[r].transcript.env = NoKey \/ reqs[r].transcript.remoteAttempted

\* the words of the summary that extract_key_topics counts
Countable(s) ==
    {w \in Range(SummaryWords(s)) : ~(Len(w) = 1 /\ w[1] \in stop_words) /\ StrLen(w) > 3}

FirstSeen(w, words) == CHOOSE i \in 1..Len(words) : words[i] = w /\ \A j \in 1..(i - 1) : words[j] # w

\* w ranks before v: more frequent, or as frequent and seen first
RanksBefore(w, v, words) ==
    \/ CountOf(w, words) > CountOf(v, words)
    \/ CountOf(w, words) = CountOf(v, words) /\ FirstSeen(w, words) < FirstSeen(v, words)

RemoteAttemptFailed ==
    smEnvKey /\ summarize_with_openai(clean_transcript(smTranscript), smRemote).raised

\* C11: when the local summarization model is selected and its load fails,
\* generate_summary does not raise and returns the rule-based two-section
\* document; and after a failed remote attempt it always returns the output of
\* the local-model path or of the rule-based path.
C11_LoadFailureFallsBack ==
    smPc \notin {"idle", "start"} =>
        /\ (smHasTransformers /\ smLocal.load = "fail") =>
              /\ smPc = "done"
              /\ smSummary = simple_extractive_summary(clean_transcript(smTranscript))
        /\ RemoteAttemptFailed =>
              /\ smPc = "done"
              /\ smPath \in {"transformers", "rules"}

\* the positions of a transcript where a turn starts: "Speaker" at the start of
\* a line, labelled "Speaker <tag>:" or with the generic "Speaker:"
TurnStarts(t) ==
    {i \in 1..(Len(t) - 1) : t[i] = "Speaker" /\ (i = 1 \/ t[i - 1] = "\n")}

\* C15: for a transcript of n >= 1 turns, whether labelled "Speaker <tag>:" by
\* the remote segment path or "Speaker:" by the local and the single-turn
\* remote path, simple_extractive_summary finds n speaker labels and reports
\* at least 1 participant.
C15_StatisticsForEveryTurnShape ==
    (smPc = "done" /\ smPath = "rules" /\ TurnStarts(smTranscript) # {}) =>
        /\ Len(FindLabels(clean_transcript(smTranscript), 1)) = Cardinality(TurnStarts(smTranscript))
        /\ AtomAfter(smSummary, <<"Total", " ", "of", " ">>)
               = ToString(Cardinality(TurnStarts(smTranscript)))
        /\ AtomAfter(smSummary, <<"Meeting", " ", "included", " ">>) # "0"

\* the chunked remote path ran and one of its calls failed: a call raised, or
\* a chunk's completion had no content and joining the summaries raised
ChunkedRemoteFailure ==
    LET n == StrLen(clean_transcript(smTranscript)) IN
    /\ smEnvKey
    /\ n > max_chunk_size
    /\ smRemote.failAt > 0
    /\ smRemote.failKind = "raise" \/ smRemote.failAt <= Len(OpenAIChunks(n))

\* C12: in the chunked remote path, when the call for chunk k or the combining
\* call fails, the summary generate_summary returns is the local-model or
\* rule-based document of the full normalized transcript: the calls stop at
\* the failing one and no chunk summary obtained before it is in the result.
C12_PartialChunksDiscarded ==
    (smPc = "done" /\ ChunkedRemoteFailure) =>
        LET t == clean_transcript(smTranscript) IN
        /\ smPath \in {"transformers", "rules"}
        /\ smPath = "rules" => smSummary = simple_extractive_summary(t)
        /\ smPath = "transformers" => smSummary = summarize_with_transformers(t, smLocal).value
        /\ \A i \in 1..Len(smSummary) : smSummary[i] # "<chunk-summary>"
        /\ smRemote.failKind = "raise" => Len(smCalls) = smRemote.failAt

\* chunk 1 was summarized remotely, a later call raised, and the rule-based
\* path produced the summary
C12_Witness ==
    /\ smPc = "done"
    /\ ChunkedRemoteFailure
    /\ smRemote.failKind = "raise"
    /\ smRemote.failAt >= 2
    /\ smPath = "rules"
    /\ smSummary # <<>>

\* a '[' with a ']' somewhere after it: what r'\[.*?\]' matches
HasBracketedToken(s) ==
    \E i \in 1..Len(s) : s[i] = "[" /\ \E j \in (i + 1)..Len(s) : s[j] = "]"

\* every run of whitespace is one space, and none leads or trails
WhitespaceCollapsed(s) ==
    /\ \A i \in 1..Len(s) : IsSpace(s[i]) => s[i] = " "
    /\ \A i \in 1..(Len(s) - 1) : ~(IsSpace(s[i]) /\ IsSpace(s[i + 1]))
    /\ s # <<>> => ~IsSpace(s[1]) /\ ~IsSpace(s[Len(s)])

\* C13: the text clean_transcript returns has every run of whitespace
\* collapsed to one space, none leading or trailing, and no bracketed
\* annotation token, also for "a [x] b" and for an annotation that spans a line
\* break; and clean_transcript returns an already normalized text unchanged.
C13_NormalizedAndIdempotent ==
    /\ clPc \in {"cleaned", "done"} =>
          WhitespaceCollapsed(clOut) /\ ~HasBracketedToken(clOut)
    /\ clPc = "done" => clTwice = clOut

\* the keys that requests have written to the process environment so far
OverridesApplied == {reqs[q].header : q \in Requests} \ {NoKey}

\* the three stages of a request read one value of the environment's key, and
\* while they run the environment keeps it
StageKeysStable(r) ==
    LET rq == reqs[r] IN
    /\ rq.summary.path # "none" => rq.summary.key = rq.transcript.env
    /\ rq.titles.path # "none" => rq.titles.key = rq.transcript.env
    /\ (running = r /\ rq.transcript.path # "none") => osEnvKey = rq.transcript.env

\* an override, once applied, is replaced only by another override
NeverRestored == OverridesApplied # {} => osEnvKey \in OverridesApplied

\* the environment's key changes only when a request that supplies an override
\* enters the handler, and never while a request's stages hold the event loop
OverrideStep ==
    osEnvKey' # osEnvKey =>
        /\ running = 0
        /\ \E q \in Requests :
              /\ reqs[q].pc = "new"
              /\ reqs'[q].header = osEnvKey'
              /\ osEnvKey' # NoKey

\* C14: the override is process-wide and never restored: the key a request's
\* stages use is the last override any request applied before they started
\* (its own, another request's, or the startup value), and from the start of
\* its transcription to the end of its stages no override takes effect.
C14_OverrideCrossesRequests ==
    /\ [](NeverRestored /\ \A r \in Requests : StageKeysStable(r))
    /\ [][OverrideStep]_vars

\* a request that supplied its own override summarized and titled remotely with
\* the key another request supplied while it was reading its upload
C14_Witness ==
    \E r, q \in Requests :
        /\ r # q
        /\ reqs[r].header = KeyOf(r)
        /\ reqs[r].titles.path = "remote"
        /\ reqs[r].summary.path = "remote"
        /\ reqs[r].summary.key = KeyOf(q)
        /\ reqs[r].titles.key = KeyOf(q)

\* a request without an override ran its stages with the key of a request
\* that had been answered before it arrived
C14_EarlierRequestKey ==
    \E r, q \in Requests :
        /\ r # q
        /\ reqs[r].header = NoKey
        /\ reqs[q].pc = "responded"
        /\ reqs[r].summary.path = "remote"
        /\ reqs[r].summary.key = KeyOf(q)

====
